---- MODULE Spec2Model ----
(***************************************************************************)
(* Model of src/pages/TransactionHistory.tsx: the session guard            *)
(* (checkUser), the transaction loader (fetchTransactions), the summary    *)
(* helpers (getCurrencySymbol, getTotalReceived) and the rendered view.    *)
(*                                                                         *)
(* Every mount of the route creates a fresh component instance with its    *)
(* own user / transactions / isLoading fields.  An async function is       *)
(* modelled as its synchronous segments: the part up to an await issues    *)
(* the request, the environment resolves the request, and the event loop   *)
(* later runs the continuation.  Amounts are held in minor units.          *)
(***************************************************************************)
EXTENDS Integers, Sequences, FiniteSets, TLC

\* ---------------------------------------------------------------- bounds
MaxMounts == 2
MaxRows == 3

Instances == 1..MaxMounts

\* ------------------------------------------------------- nullable values
\* A value of type T | null is a sequence of length at most one.
None == <<>>
Some(x) == <<x>>

\* JavaScript truthiness of a string | null | undefined value.
Truthy(opt) == opt # None /\ opt[1] # ""

\* ------------------------------------------------------------ the store
\* The identities the auth provider can return a session for; "u2" below is
\* another recipient whose rows share the relation.
Users == {"u1"}

Tx(id, rcp, st, note, price, fee, cur, at, food) ==
  [id |-> id, buyer_email |-> "buyer@example.com", recipient_id |-> rcp, status |-> st, buyer_note |-> note,
   item_price |-> price, service_fee |-> fee, total_amount |-> price + fee,
   currency |-> cur, created_at |-> at, food_items |-> food]

TxUniverse ==
  { Tx("t1", "u1", "completed", None,          1250, 150, "NGN",         5, Some("Jollof Rice")),
    Tx("t2", "u1", "completed", Some(""),       500,  50, "constructor", 4, None),
    Tx("t3", "u1", "completed", Some("Enjoy"),  300,  30, "XYZ",         3, Some("Suya")),
    Tx("t4", "u1", "pending",   Some("Soon"),   700,  70, "USD",         6, None),
    Tx("t5", "u2", "completed", Some("Hi"),     900,  90, "EUR",         2, Some("Pizza")) }

VARIABLES
  db,            \* rows of the remote "transactions" relation
  location,      \* current route of the router
  mounts,        \* number of component instances created so far
  mounted,       \* mounted[i]: instance i is on screen
  pc,            \* pc[i]: position of instance i's async chain
  sessionResp,   \* sessionResp[i]: result of supabase.auth.getSession()
  fetchReq,      \* fetchReq[i]: the query issued by fetchTransactions
  fetchResp,     \* fetchResp[i]: { data, error } of that query
  user,          \* useState<User | null>
  transactions,  \* useState<Transaction[]>
  isLoading,     \* useState(true)
  listWrites,    \* number of setTransactions calls of instance i
  toasts,        \* messages passed to toast.error by instance i
  consoleErrors, \* number of console.error calls of instance i
  navs           \* routes instance i passed to navigate()

vars == <<db, location, mounts, mounted, pc, sessionResp, fetchReq, fetchResp,
          user, transactions, isLoading, listWrites, toasts, consoleErrors, navs>>

\* --------------------------------------------------------- the request
NoRequest == [issued |-> FALSE, table |-> "", filters |-> <<>>, order |-> ""]

\* .from("transactions").select(...).eq("recipient_id", userId)
\* .eq("status", "completed").order("created_at", { ascending: false })
fetchRequest_noStatus(userId) ==
  [issued |-> TRUE, table |-> "transactions",
   filters |-> << <<"recipient_id", userId>> >>,
   order |-> "created_at.desc"]

fetchRequest(userId) ==
  [issued |-> TRUE, table |-> "transactions",
   filters |-> << <<"recipient_id", userId>>, <<"status", "completed">> >>,
   order |-> "created_at.desc"]

Matches(t, filters) ==
  \A k \in 1..Len(filters) : t[filters[k][1]] = filters[k][2]

RECURSIVE SortDesc(_)
SortDesc(S) ==
  IF S = {} THEN <<>>
  ELSE LET m == CHOOSE t \in S : \A o \in S : o.created_at <= t.created_at
       IN <<m>> \o SortDesc(S \ {m})

\* The rows the store answers a request with.
Query(req) == SortDesc({t \in db : Matches(t, req.filters)})

PendingResp == [state |-> "pending", error |-> FALSE, data |-> None]
ErrorResp == [state |-> "resolved", error |-> TRUE, data |-> None]
NullDataResp == [state |-> "resolved", error |-> FALSE, data |-> None]
RowsResp(rows) == [state |-> "resolved", error |-> FALSE, data |-> Some(rows)]

PendingSession == [state |-> "pending", session |-> None]
ResolvedSession(s) == [state |-> "resolved", session |-> s]

\* ------------------------------------------------------- pure helpers
\* const symbols = { USD: "$", EUR: "€", GBP: "£", NGN: "₦" }
symbols == [USD |-> "$", EUR |-> "EUR-sign", GBP |-> "GBP-sign", NGN |-> "NGN-sign"]

\* symbols is an object literal: a property read that misses the own keys
\* continues on Object.prototype, whose members are functions.
ObjectPrototype ==
  [constructor |-> "[Function: Object]", toString |-> "[Function: toString]",
   valueOf |-> "[Function: valueOf]", hasOwnProperty |-> "[Function: hasOwnProperty]"]

PropertyRead(key) ==
  IF key \in DOMAIN symbols THEN Some(symbols[key])
  ELSE IF key \in DOMAIN ObjectPrototype THEN Some(ObjectPrototype[key])
  ELSE None

\* return symbols[currency] || "$"
getCurrencySymbol(currency) ==
  LET v == PropertyRead(currency) IN IF Truthy(v) THEN v[1] ELSE "$"

\* transactions.reduce((sum, tx) => sum + tx.item_price, 0)
RECURSIVE reduce(_, _, _, _)
reduce(list, field, k, acc) ==
  IF k > Len(list) THEN acc ELSE reduce(list, field, k + 1, acc + list[k][field])

getTotalReceived_withFee(list) == reduce(list, "total_amount", 1, 0)

getTotalReceived(list) == reduce(list, "item_price", 1, 0)

\* n.toFixed(2) of an amount held in minor units: <<whole, hundredths>>
toFixed2(n) == <<n \div 100, n % 100>>
\* ------------------------------------------------------------ the view
\* transactions[0]?.currency || "USD"
firstCurrency(list) ==
  IF Len(list) > 0 /\ Truthy(Some(list[1].currency)) THEN list[1].currency ELSE "USD"

\* {transaction.buyer_note && ( ... "{transaction.buyer_note}" ... )}
noteBlock_nonNull(t) ==
  IF t.buyer_note # None THEN Some(<<"\"", t.buyer_note[1], "\"">>) ELSE None

noteBlock(t) ==
  IF Truthy(t.buyer_note) THEN Some(<<"\"", t.buyer_note[1], "\"">>) ELSE None

\* one <Card key={transaction.id}> of the list
card(t) ==
  [key |-> t.id,
   title |-> IF t.food_items # None /\ Truthy(t.food_items) THEN t.food_items[1] ELSE "Gift Item",
   badge |-> t.status,
   price |-> <<getCurrencySymbol(t.currency), toFixed2(t.item_price)>>,
   fee |-> <<"+", getCurrencySymbol(t.currency), toFixed2(t.service_fee), " service fee">>,
   from |-> t.buyer_email,
   date |-> t.created_at,
   message |-> noteBlock(t)]

\* isLoading ? spinner : transactions.length === 0 ? empty state : list
body_emptyFirst(loading, list) ==
  IF Len(list) = 0 THEN "emptyState" ELSE IF loading THEN "spinner" ELSE "cards"

body(loading, list) ==
  IF loading THEN "spinner" ELSE IF Len(list) = 0 THEN "emptyState" ELSE "cards"

\* The JSX returned by the component for the state of instance i.
Render(i) ==
  LET list == transactions[i] IN
  [elements |-> {"header", "backButton", "summary", body(isLoading[i], list)},
   count |-> Len(list),
   symbol |-> getCurrencySymbol(firstCurrency(list)),
   total |-> toFixed2(getTotalReceived(list)),
   cards |-> IF body(isLoading[i], list) = "cards"
             THEN [k \in 1..Len(list) |-> card(list[k])] ELSE <<>>]

\* ----------------------------------------------------------- the state
Init ==
  /\ db \in {S \in SUBSET TxUniverse : Cardinality(S) <= MaxRows}
  /\ location = "/history"
  /\ mounts = 1
  /\ mounted = [i \in Instances |-> i = 1]
  /\ pc = [i \in Instances |-> IF i = 1 THEN "awaitSession" ELSE "unborn"]
  /\ sessionResp = [i \in Instances |-> PendingSession]
  /\ fetchReq = [i \in Instances |-> NoRequest]
  /\ fetchResp = [i \in Instances |-> PendingResp]
  /\ user = [i \in Instances |-> None]
  /\ transactions = [i \in Instances |-> <<>>]
  /\ isLoading = [i \in Instances |-> TRUE]
  /\ listWrites = [i \in Instances |-> 0]
  /\ toasts = [i \in Instances |-> <<>>]
  /\ consoleErrors = [i \in Instances |-> 0]
  /\ navs = [i \in Instances |-> {}]

\* navigate(to): the router leaves the history route, which unmounts the view.
navigate(i, to) ==
  /\ location' = to
  /\ mounted' = [j \in Instances |-> FALSE]
  /\ navs' = [navs EXCEPT ![i] = @ \cup {to}]

\* The route is entered again: a new instance is constructed and its mount
\* effect calls checkUser(), which runs up to the await of getSession().
Mount(i) ==
  /\ i = mounts + 1
  /\ i <= MaxMounts
  /\ location # "/history"
  /\ location' = "/history"
  /\ mounts' = i
  /\ mounted' = [mounted EXCEPT ![i] = TRUE]
  /\ pc' = [pc EXCEPT ![i] = "awaitSession"]
  /\ UNCHANGED <<db, sessionResp, fetchReq, fetchResp, user, transactions,
                 isLoading, listWrites, toasts, consoleErrors, navs>>

\* The auth provider answers the session lookup of instance i.
SessionResolves(i, s) ==
  /\ pc[i] = "awaitSession"
  /\ sessionResp[i].state = "pending"
  /\ sessionResp' = [sessionResp EXCEPT ![i] = ResolvedSession(s)]
  /\ UNCHANGED <<db, location, mounts, mounted, pc, fetchReq, fetchResp, user,
                 transactions, isLoading, listWrites, toasts, consoleErrors, navs>>

\* fetchTransactions(userId) up to its await: setIsLoading(true), issue the query.
fetchTransactions_start(i, userId) ==
  /\ isLoading' = [isLoading EXCEPT ![i] = TRUE]
  /\ fetchReq' = [fetchReq EXCEPT ![i] = fetchRequest(userId)]
  /\ pc' = [pc EXCEPT ![i] = "awaitFetch"]

\* checkUser after "await supabase.auth.getSession()".
checkUser_noGuard(i) ==
  /\ pc[i] = "awaitSession"
  /\ sessionResp[i].state = "resolved"
  /\ LET session == sessionResp[i].session IN
       /\ user' = [user EXCEPT ![i] = session]
       /\ fetchTransactions_start(i, IF session = None THEN "undefined" ELSE session[1])
       /\ UNCHANGED <<location, mounted, navs>>
  /\ UNCHANGED <<db, mounts, sessionResp, fetchResp, transactions, listWrites,
                 toasts, consoleErrors>>

checkUser_mountedOnly(i) ==
  /\ mounted[i]
  /\ pc[i] = "awaitSession"
  /\ sessionResp[i].state = "resolved"
  /\ LET session == sessionResp[i].session IN
       IF session = None
       THEN /\ navigate(i, "/auth")
            /\ pc' = [pc EXCEPT ![i] = "redirected"]
            /\ UNCHANGED <<user, isLoading, fetchReq>>
       ELSE /\ user' = [user EXCEPT ![i] = session]
            /\ fetchTransactions_start(i, session[1])
            /\ UNCHANGED <<location, mounted, navs>>
  /\ UNCHANGED <<db, mounts, sessionResp, fetchResp, transactions, listWrites,
                 toasts, consoleErrors>>

checkUser(i) ==
  /\ pc[i] = "awaitSession"
  /\ sessionResp[i].state = "resolved"
  /\ LET session == sessionResp[i].session IN
       IF session = None
       THEN /\ navigate(i, "/auth")
            /\ pc' = [pc EXCEPT ![i] = "redirected"]
            /\ UNCHANGED <<user, isLoading, fetchReq>>
       ELSE /\ user' = [user EXCEPT ![i] = session]
            /\ fetchTransactions_start(i, session[1])
            /\ UNCHANGED <<location, mounted, navs>>
  /\ UNCHANGED <<db, mounts, sessionResp, fetchResp, transactions, listWrites,
                 toasts, consoleErrors>>

\* The store answers the query of instance i: an error object, a success
\* without rows (data null), or the rows selected by the request.
FetchResolves(i, r) ==
  /\ pc[i] = "awaitFetch"
  /\ fetchResp[i].state = "pending"
  /\ r \in {ErrorResp, NullDataResp, RowsResp(Query(fetchReq[i]))}
  /\ fetchResp' = [fetchResp EXCEPT ![i] = r]
  /\ UNCHANGED <<db, location, mounts, mounted, pc, sessionResp, fetchReq, user,
                 transactions, isLoading, listWrites, toasts, consoleErrors, navs>>

\* data || []
listToHold_skipFirst(resp) ==
  IF resp.data = None \/ resp.data[1] = <<>> THEN <<>> ELSE Tail(resp.data[1])

listToHold(resp) ==
  IF resp.data = None THEN <<>> ELSE resp.data[1]

\* fetchTransactions after the await of the query.
fetchTransactions_writeOnError(i) ==
  /\ pc[i] = "awaitFetch"
  /\ fetchResp[i].state = "resolved"
  /\ IF fetchResp[i].error
     THEN /\ toasts' = [toasts EXCEPT ![i] = Append(@, "Failed to load transaction history")]
          /\ consoleErrors' = [consoleErrors EXCEPT ![i] = @ + 1]
     ELSE UNCHANGED <<toasts, consoleErrors>>
  /\ transactions' = [transactions EXCEPT ![i] = listToHold(fetchResp[i])]
  /\ listWrites' = [listWrites EXCEPT ![i] = @ + 1]
  /\ isLoading' = [isLoading EXCEPT ![i] = FALSE]
  /\ pc' = [pc EXCEPT ![i] = "done"]
  /\ UNCHANGED <<db, location, mounts, mounted, sessionResp, fetchReq, fetchResp,
                 user, navs>>

fetchTransactions_keepLoadingOnError(i) ==
  /\ pc[i] = "awaitFetch"
  /\ fetchResp[i].state = "resolved"
  /\ IF fetchResp[i].error
     THEN /\ toasts' = [toasts EXCEPT ![i] = Append(@, "Failed to load transaction history")]
          /\ consoleErrors' = [consoleErrors EXCEPT ![i] = @ + 1]
          /\ UNCHANGED <<transactions, listWrites, isLoading>>
     ELSE /\ transactions' = [transactions EXCEPT ![i] = listToHold(fetchResp[i])]
          /\ listWrites' = [listWrites EXCEPT ![i] = @ + 1]
          /\ isLoading' = [isLoading EXCEPT ![i] = FALSE]
          /\ UNCHANGED <<toasts, consoleErrors>>
  /\ pc' = [pc EXCEPT ![i] = "done"]
  /\ UNCHANGED <<db, location, mounts, mounted, sessionResp, fetchReq, fetchResp,
                 user, navs>>

fetchTransactions(i) ==
  /\ pc[i] = "awaitFetch"
  /\ fetchResp[i].state = "resolved"
  /\ IF fetchResp[i].error
     THEN /\ toasts' = [toasts EXCEPT ![i] = Append(@, "Failed to load transaction history")]
          /\ consoleErrors' = [consoleErrors EXCEPT ![i] = @ + 1]
          /\ UNCHANGED <<transactions, listWrites>>
     ELSE /\ transactions' = [transactions EXCEPT ![i] = listToHold(fetchResp[i])]
          /\ listWrites' = [listWrites EXCEPT ![i] = @ + 1]
          /\ UNCHANGED <<toasts, consoleErrors>>
  /\ isLoading' = [isLoading EXCEPT ![i] = FALSE]
  /\ pc' = [pc EXCEPT ![i] = "done"]
  /\ UNCHANGED <<db, location, mounts, mounted, sessionResp, fetchReq, fetchResp,
                 user, navs>>

\* onClick of the header back button: navigate("/dashboard")
BackButton(i) ==
  /\ mounted[i]
  /\ "backButton" \in Render(i).elements
  /\ navigate(i, "/dashboard")
  /\ UNCHANGED <<db, mounts, pc, sessionResp, fetchReq, fetchResp, user,
                 transactions, isLoading, listWrites, toasts, consoleErrors>>

\* onClick of the empty state's "Go to Dashboard" button
GoToDashboard(i) ==
  /\ mounted[i]
  /\ "emptyState" \in Render(i).elements
  /\ navigate(i, "/dashboard")
  /\ UNCHANGED <<db, mounts, pc, sessionResp, fetchReq, fetchResp, user,
                 transactions, isLoading, listWrites, toasts, consoleErrors>>

Next ==
  \/ \E i \in Instances : Mount(i)
  \/ \E i \in Instances : \E s \in {None} \cup {Some(u) : u \in Users} : SessionResolves(i, s)
  \/ \E i \in Instances : checkUser(i)
  \/ \E i \in Instances : \E r \in {ErrorResp, NullDataResp, RowsResp(Query(fetchReq[i]))} :
        FetchResolves(i, r)
  \/ \E i \in Instances : fetchTransactions(i)
  \/ \E i \in Instances : BackButton(i)
  \/ \E i \in Instances : GoToDashboard(i)

Spec == Init /\ [][Next]_vars

\* The event loop runs the continuation of every settled promise.
FairSpec ==
  /\ Init /\ [][Next]_vars
  /\ \A i \in Instances : WF_vars(checkUser(i)) /\ WF_vars(fetchTransactions(i))
\* ------------------------------------------------------------ properties
Resolved(i) == sessionResp[i].state = "resolved"

\* C1: a transaction fetch is issued only after the session lookup resolved
\* with a present session; after a lookup that resolved with no session the
\* instance navigates to "/auth", never issues a fetch and never stores a user.
C1_SessionGating ==
  \A i \in Instances :
    /\ fetchReq[i].issued => (Resolved(i) /\ sessionResp[i].session # None)
    /\ user[i] # None => (Resolved(i) /\ user[i] = sessionResp[i].session)
    /\ (Resolved(i) /\ sessionResp[i].session = None) =>
         /\ ~fetchReq[i].issued
         /\ user[i] = None
         /\ pc[i] \in {"awaitSession", "redirected"}
         /\ pc[i] = "redirected" => "/auth" \in navs[i]
    /\ pc[i] = "redirected" => (location = "/auth" \/ mounts > i)

C1_Witness ==
  \E i \in Instances :
    /\ pc[i] = "redirected" /\ sessionResp[i].session = None
    /\ "/auth" \in navs[i] /\ location = "/auth" /\ ~fetchReq[i].issued

\* C2: after a fetch that failed, the error notification was shown exactly
\* once, the list was never written, and the held list is empty.
C2_FetchFailure ==
  \A i \in Instances :
    /\ (pc[i] = "done" /\ fetchResp[i].error) =>
         /\ toasts[i] = <<"Failed to load transaction history">>
         /\ consoleErrors[i] = 1
         /\ listWrites[i] = 0
         /\ transactions[i] = <<>>
    /\ ~(pc[i] = "done" /\ fetchResp[i].error) => toasts[i] = <<>>

C2_Witness ==
  \E i \in Instances :
    /\ pc[i] = "done" /\ fetchResp[i].error /\ Len(toasts[i]) = 1
    /\ Query(fetchReq[i]) # <<>>

\* C3: once fetchTransactions has completed, with success or with an error,
\* isLoading is false; and every answered fetch leads to a state in which the
\* instance is no longer loading.
C3_LoadingCleared ==
  /\ [](\A i \in Instances : pc[i] = "done" => ~isLoading[i])
  /\ \A i \in Instances :
       (pc[i] = "awaitFetch" /\ fetchResp[i].state = "resolved") ~> ~isLoading[i]

C3_Witness ==
  \E i \in Instances : pc[i] = "done" /\ fetchResp[i].error /\ ~isLoading[i]

\* C4: after a successful fetch the held list is exactly the returned rows in
\* the returned order (empty when data is null), the list was written once,
\* and the displayed count is the number of returned rows.
C4_ListReplaced ==
  \A i \in Instances :
    /\ listWrites[i] <= 1
    /\ pc[i] # "done" => (listWrites[i] = 0 /\ transactions[i] = <<>>)
    /\ (pc[i] = "done" /\ ~fetchResp[i].error) =>
         /\ listWrites[i] = 1
         /\ fetchResp[i].data = None => transactions[i] = <<>>
         /\ fetchResp[i].data # None => transactions[i] = fetchResp[i].data[1]
         /\ fetchResp[i].data # None => Render(i).count = Len(fetchResp[i].data[1])
         /\ fetchResp[i].data = None => Render(i).count = 0

C4_Witness ==
  \E i \in Instances :
    /\ pc[i] = "done" /\ ~fetchResp[i].error /\ fetchResp[i].data # None
    /\ Len(transactions[i]) >= 2 /\ Render(i).count = Len(transactions[i])

\* The sum of item_price over a list, by recursion on the tail.
RECURSIVE SumItemPrice(_)
SumItemPrice(list) ==
  IF list = <<>> THEN 0 ELSE Head(list).item_price + SumItemPrice(Tail(list))

\* C5: the "Total Value Received" amount is the sum of item_price over the
\* held list, service fees excluded, and 0 for the empty list.
C5_TotalIsItemPriceSum ==
  \A i \in Instances :
    /\ getTotalReceived(transactions[i]) = SumItemPrice(transactions[i])
    /\ Render(i).total = toFixed2(SumItemPrice(transactions[i]))
    /\ transactions[i] = <<>> => Render(i).total = <<0, 0>>

C5_Witness ==
  \E i \in Instances :
    /\ mounted[i] /\ Len(transactions[i]) >= 2
    /\ \A k \in 1..Len(transactions[i]) : transactions[i][k].service_fee > 0
    /\ getTotalReceived(transactions[i]) > 0

\* The symbol the fixed mapping USD, EUR, GBP, NGN assigns, "$" otherwise.
MappedSymbol(code) ==
  CASE code = "USD" -> "$"
    [] code = "EUR" -> "EUR-sign"
    [] code = "GBP" -> "GBP-sign"
    [] code = "NGN" -> "NGN-sign"
    [] OTHER -> "$"

\* C6: the summary's currency symbol is the mapped symbol of the first
\* transaction's currency code, and "$" when the list is empty or that code
\* is not in the mapping.
C6_SummarySymbol ==
  \A i \in Instances :
    Render(i).symbol =
      IF transactions[i] = <<>> THEN "$" ELSE MappedSymbol(transactions[i][1].currency)

\* C7: every held transaction is completed and addressed to the session's
\* user, and the only request issued carries exactly the two equality filters.
C7_DisplayedRows ==
  \A i \in Instances :
    /\ fetchReq[i].issued =>
         /\ Resolved(i) /\ sessionResp[i].session # None
         /\ fetchReq[i].table = "transactions"
         /\ fetchReq[i].filters = << <<"recipient_id", sessionResp[i].session[1]>>,
                                     <<"status", "completed">> >>
    /\ \A k \in 1..Len(transactions[i]) :
         /\ transactions[i][k].status = "completed"
         /\ user[i] = sessionResp[i].session
         /\ user[i] # None /\ transactions[i][k].recipient_id = user[i][1]
         /\ transactions[i][k] \in db

C7_Witness ==
  \E i \in Instances :
    /\ mounted[i] /\ transactions[i] # <<>>
    /\ \E t \in db : t.recipient_id = user[i][1] /\ t.status # "completed"
    /\ \E t \in db : t.recipient_id # user[i][1]

Branches == {"spinner", "emptyState", "cards"}

\* C8 as stated: the summary panel is rendered only together with the cards.
C8_SummaryOnlyWithCards ==
  \A i \in Instances :
    mounted[i] => ("summary" \in Render(i).elements => "cards" \in Render(i).elements)

\* C8: the summary panel is rendered in every state; below it exactly one of
\* spinner, empty state and card list is rendered, chosen in priority order,
\* with one card per transaction.
C8_ThreeBranches ==
  \A i \in Instances :
    mounted[i] =>
      LET r == Render(i) IN
        /\ "summary" \in r.elements
        /\ Cardinality(r.elements \cap Branches) = 1
        /\ isLoading[i] => "spinner" \in r.elements
        /\ (~isLoading[i] /\ transactions[i] = <<>>) => "emptyState" \in r.elements
        /\ (~isLoading[i] /\ transactions[i] # <<>>) => "cards" \in r.elements
        /\ Len(r.cards) = IF "cards" \in r.elements THEN Len(transactions[i]) ELSE 0
        /\ \A k \in 1..Len(r.cards) : r.cards[k].key = transactions[i][k].id

C8_Witness ==
  \E i \in Instances :
    /\ mounted[i] /\ ~isLoading[i] /\ transactions[i] = <<>>
    /\ Render(i).elements \cap (Branches \cup {"summary"}) = {"summary", "emptyState"}

\* C9 as stated: the message block is omitted exactly when buyer_note is null.
C9_NoteOmittedIffNull ==
  \A i \in Instances :
    mounted[i] =>
      \A k \in 1..Len(Render(i).cards) :
        (Render(i).cards[k].message = None) <=> (transactions[i][k].buyer_note = None)

\* C9: the message block is omitted exactly when buyer_note is null or the
\* empty string; a non-empty note is rendered verbatim inside quotation marks.
C9_NoteOmittedIffNullOrEmpty ==
  \A i \in Instances :
    mounted[i] =>
      \A k \in 1..Len(Render(i).cards) :
        LET note == transactions[i][k].buyer_note
            msg == Render(i).cards[k].message IN
          /\ (msg = None) <=> (note = None \/ note = Some(""))
          /\ msg # None => msg = Some(<<"\"", note[1], "\"">>)

C9_Witness ==
  \E i \in Instances :
    /\ mounted[i]
    /\ \E k \in 1..Len(Render(i).cards) :
         transactions[i][k].buyer_note = Some("") /\ Render(i).cards[k].message = None
    /\ \E k \in 1..Len(Render(i).cards) :
         transactions[i][k].buyer_note = Some("Enjoy") /\ Render(i).cards[k].message # None

\* C10: a response that arrives for an unmounted instance is still handled:
\* the continuation runs and performs its navigation, or its state writes
\* and notification.
C10_NoCancellation ==
  \A i \in Instances :
    /\ (~mounted[i] /\ pc[i] = "awaitSession" /\ Resolved(i) /\ sessionResp[i].session = None)
         ~> (pc[i] = "redirected" /\ "/auth" \in navs[i])
    /\ (~mounted[i] /\ pc[i] = "awaitSession" /\ Resolved(i) /\ sessionResp[i].session # None)
         ~> (user[i] # None /\ fetchReq[i].issued)
    /\ (~mounted[i] /\ pc[i] = "awaitFetch" /\ fetchResp[i].state = "resolved")
         ~> (pc[i] = "done" /\ ~isLoading[i]
             /\ (fetchResp[i].error => Len(toasts[i]) = 1)
             /\ (~fetchResp[i].error => listWrites[i] = 1))

\* An instance left by the back button whose late session answer redirected,
\* while a later instance had already issued its own session lookup.
C10_Witness ==
  \E i \in Instances :
    /\ pc[i] = "redirected" /\ navs[i] = {"/dashboard", "/auth"}
    /\ \E j \in Instances : j > i /\ pc[j] # "unborn"
====
